---- MODULE Spec2Model ----
(***************************************************************************)
(* fb-video-api: GET /api/extract of src/index.js.                         *)
(*                                                                         *)
(* The server is a single Node.js process.  Every request runs the async   *)
(* route handler.  The event loop runs one callback at a time and then     *)
(* drains the promise reactions it queued, so an action below is the run   *)
(* of one request from the moment an operation it waits for (the request   *)
(* itself, the GET, a browser call, the timer) settles to the moment it    *)
(* waits for the next one.  Strings are TLA+ strings handled character by  *)
(* character (Len, SubSeq, \o).  A JavaScript value that may be            *)
(* null/undefined is a tuple: <<>> is null, <<v>> is the value v.          *)
(***************************************************************************)
EXTENDS Integers, Sequences, FiniteSets, TLC

(***************************************************************************)
(* Bounds of the model.                                                    *)
(***************************************************************************)
\* number of requests that may be in flight together
NumReq == 2

Req == 1..NumReq

(***************************************************************************)
(* JavaScript values and strings.                                          *)
(***************************************************************************)
Null == <<>>
Some(v) == <<v>>

\* JS truthiness of a value that is null/undefined or a string
TruthyStr(v) == v # Null /\ v[1] # ""

\* a || b on values that are null or strings
OrElse(a, b) == IF TruthyStr(a) THEN a ELSE b

CharAt(s, i) == IF i >= 1 /\ i <= Len(s) THEN SubSeq(s, i, i) ELSE ""

StartsWithAt(s, i, p) ==
    /\ i >= 1
    /\ i + Len(p) - 1 <= Len(s)
    /\ SubSeq(s, i, i + Len(p) - 1) = p

\* the least element of a non-empty set of integers
Least(S) == CHOOSE i \in S : \A j \in S : i <= j

LeastOr0(S) == IF S = {} THEN 0 ELSE Least(S)

\* String.prototype.indexOf(p, i), 1-based; 0 when p does not occur at or
\* after position i
IndexFrom(s, p, i) ==
    LeastOr0({j \in i..(Len(s) - Len(p) + 1) : StartsWithAt(s, j, p)})

\* String.prototype.includes
includes(s, p) == IndexFrom(s, p, 1) # 0

\* String.prototype.replace with a string pattern: the FIRST occurrence only
ReplaceAt(s, p, r, i) ==
    IF i = 0 THEN s
    ELSE SubSeq(s, 1, i - 1) \o r \o SubSeq(s, i + Len(p), Len(s))

replace(s, p, r) == ReplaceAt(s, p, r, IndexFrom(s, p, 1))

\* String.prototype.replace with a /literal/g pattern: every occurrence,
\* left to right, the search resuming after the text replaced
RECURSIVE replaceAllFrom(_, _, _, _)
ReplaceNext(s, p, r, i, j) ==
    IF j = 0 THEN SubSeq(s, i, Len(s))
    ELSE SubSeq(s, i, j - 1) \o r \o replaceAllFrom(s, p, r, j + Len(p))

replaceAllFrom(s, p, r, i) == ReplaceNext(s, p, r, i, IndexFrom(s, p, i))

replaceAll(s, p, r) == replaceAllFrom(s, p, r, 1)

(***************************************************************************)
(* cleanUrl, normalizeUrl (src/index.js 31-51).                            *)
(***************************************************************************)
cleanUrl(url) ==
    IF ~TruthyStr(url) THEN Null
    ELSE Some(replaceAll(replaceAll(replaceAll(replaceAll(replaceAll(replaceAll(
              url[1], "\\u0025", "%"),
                      "\\u003C", "<"),
                      "\\u003E", ">"),
                      "\\u0026", "&"),
                      "\\/", "/"),
                      "\\\"", "\""))

normalizeUrl(link) ==
    replace(replace(replace(replace(link,
        "://m.facebook.com/", "://www.facebook.com/"),
        "://web.facebook.com/", "://www.facebook.com/"),
        "://touch.facebook.com/", "://www.facebook.com/"),
        "/share/v/", "/reel/")

(***************************************************************************)
(* The pattern extractor (src/index.js 58-106).  Every pattern is          *)
(*      KEY \s* : \s* " ([^"]+) "                                          *)
(* and is named here by its KEY; the matcher below is that regular         *)
(* expression: no step of it can be satisfied in two ways, so the match at *)
(* a position is unique.                                                   *)
(***************************************************************************)
IsSpace(c) == c \in {" ", "\t", "\n", "\r", "\f"}

\* \s* from position i: the position of the first character that is no
\* white space (Len(s) + 1 at the end of the string)
SkipSpace(s, i) ==
    Least({j \in i..(Len(s) + 1) : j = Len(s) + 1 \/ ~IsSpace(CharAt(s, j))})

\* index of the first double quote at or after i; 0 when there is none
NextQuote(s, i) == IndexFrom(s, "\"", i)

\* the match of the pattern starting exactly at i: <<>> when there is none,
\* else <<[index, last, group]>>: where it starts, where it ends, and what
\* the parentheses captured.  Each step takes the position the one before it
\* reached: the key, \s*, the colon, \s*, the opening quote, [^"]+ and the
\* closing quote.
MatchValue(html, i, b, e) ==
    IF e = 0 \/ e = b + 1 THEN <<>>
    ELSE <<[index |-> i, last |-> e, group |-> SubSeq(html, b + 1, e - 1)]>>

MatchQuote(html, i, b) ==
    IF CharAt(html, b) # "\"" THEN <<>>
    ELSE MatchValue(html, i, b, NextQuote(html, b + 1))

MatchColon(html, i, a) ==
    IF CharAt(html, a) # ":" THEN <<>>
    ELSE MatchQuote(html, i, SkipSpace(html, a + 1))

RegexMatchAt(html, i, key) ==
    IF ~StartsWithAt(html, i, key) THEN <<>>
    ELSE MatchColon(html, i, SkipSpace(html, i + Len(key)))

\* [...html.matchAll(new RegExp(pattern, 'g'))]: the matches in document
\* order, each search resuming after the previous match
RECURSIVE matchAll(_, _, _)
MatchAllFrom(html, key, i) ==
    IF i = 0 THEN <<>>
    ELSE RegexMatchAt(html, i, key)
         \o matchAll(html, key, RegexMatchAt(html, i, key)[1].last + 1)

matchAll(html, key, from) ==
    MatchAllFrom(html, key,
        LeastOr0({i \in from..Len(html) : RegexMatchAt(html, i, key) # <<>>}))

\* LastCleaned taking the first match instead of the last
FirstCleaned(matches) ==
    IF Len(matches) > 0 THEN cleanUrl(Some(matches[1].group))
    ELSE Null

\* lines 60-63 of getLastMatch
LastCleaned(matches) ==
    IF Len(matches) > 0 THEN cleanUrl(Some(matches[Len(matches)].group))
    ELSE Null

getLastMatch(html, pattern) == LastCleaned(matchAll(html, pattern, 1))

PAT_HD1 == "\"playable_url_quality_hd\""
PAT_HD2 == "\"browser_native_hd_url\""
PAT_HD3 == "hd_src"
PAT_SD1 == "\"playable_url\""
PAT_SD2 == "\"browser_native_sd_url\""
PAT_SD3 == "sd_src"

\* IfNot without the test: the later pattern is tried always, and wins
\* when it matches
IfNotLaterWins(url, html, pattern) ==
    IF TruthyStr(getLastMatch(html, pattern)) THEN getLastMatch(html, pattern)
    ELSE url

\* `if (!url) { url = getLastMatch(html, pattern); }`
IfNot(url, html, pattern) ==
    IF ~TruthyStr(url) THEN getLastMatch(html, pattern) ELSE url

extractVideoUrlsFromHtml(html) ==
    [ hdUrl |-> IfNot(IfNot(getLastMatch(html, PAT_HD1), html, PAT_HD2), html, PAT_HD3),
      sdUrl |-> IfNot(IfNot(getLastMatch(html, PAT_SD1), html, PAT_SD2), html, PAT_SD3) ]

(***************************************************************************)
(* The extractor of src/unnamed/part_000 (lines 57-105): getAllMatches     *)
(* unescapes every match and keeps the ones that are not empty, the next   *)
(* pattern is tried when the list is empty, and the last entry is taken.   *)
(* regex.exec in a loop with a /g pattern finds the matches that matchAll  *)
(* finds, in the same order.                                               *)
(***************************************************************************)
\* lines 61-65 of part_000 for one match: the entry pushed, or none
Pushed(match) ==
    IF TruthyStr(cleanUrl(Some(match.group)))
    THEN <<[url |-> cleanUrl(Some(match.group))[1], index |-> match.index]>>
    ELSE <<>>

RECURSIVE PushedFrom(_, _)
PushedFrom(matches, i) ==
    IF i > Len(matches) THEN <<>>
    ELSE Pushed(matches[i]) \o PushedFrom(matches, i + 1)

getAllMatches(html, regex) == PushedFrom(matchAll(html, regex, 1), 1)

\* `if (allHd.length === 0) { allHd = getAllMatches(html, regex); }`
IfEmpty(all, html, regex) ==
    IF Len(all) = 0 THEN getAllMatches(html, regex) ELSE all

\* LastUrl taking the first entry of the list
FirstUrl(all) == IF Len(all) > 0 THEN Some(all[1].url) ELSE Null

\* lines 98-99 of part_000
LastUrl(all) == IF Len(all) > 0 THEN Some(all[Len(all)].url) ELSE Null

extractVideoUrlsFromHtml_part_000(html) ==
    [ hdUrl |-> LastUrl(IfEmpty(IfEmpty(getAllMatches(html, PAT_HD1), html, PAT_HD2),
                                html, PAT_HD3)),
      sdUrl |-> LastUrl(IfEmpty(IfEmpty(getAllMatches(html, PAT_SD1), html, PAT_SD2),
                                html, PAT_SD3)) ]

(***************************************************************************)
(* Inputs of the model: the url query parameter of a request (absent,      *)
(* empty, another site, two Facebook forms), the markup a fetch returns    *)
(* and the messages of the errors the awaited calls reject with.           *)
(***************************************************************************)
Urls ==
    { Null, Some(""), Some("https://example.com/video"),
      Some("https://m.facebook.com/share/v/1AKq/"), Some("https://fb.com/v1") }

PageNone == "<html><body>Log in</body></html>"
PageHd == "{\"playable_url_quality_hd\":\"https:\\/\\/cdn.example\\/a.mp4\"}"
PageSd == "{\"playable_url\" : \"https:\\/\\/cdn.example\\/b.mp4?x=1\\u0026y=2\"}"
PageBoth == PageSd \o PageHd

Pages == { PageNone, PageHd, PageSd, PageBoth }

HttpErrors == { "Response code 404 (Not Found)", "Timeout awaiting 'request' for 10000ms" }

ERR_REQUIRE_PUPPETEER == "Cannot find module 'puppeteer-core'"
ERR_REQUIRE_CHROMIUM == "Cannot find module '@sparticuz/chromium'"
ERR_NULL_ARGS == "Cannot read properties of null (reading 'args')"
ERR_EXECUTABLE_PATH == "chromium.executablePath failed"
ERR_LAUNCH == "Failed to launch the browser process!"
ERR_NEW_PAGE == "browser.newPage failed"
ERR_SET_USER_AGENT == "page.setUserAgent failed"
ERR_SET_INTERCEPTION == "page.setRequestInterception failed"
ERR_GOTO == "Navigation timeout of 30000 ms exceeded"
ERR_CONTENT == "page.content failed"
ERR_CLOSE == "browser.close failed"

MSG_MISSING == "Missing required parameter: url"
MSG_INVALID == "Invalid URL: Must be a Facebook video URL"
MSG_NOT_FOUND == "Could not extract video URL. The video may be private or deleted."

(***************************************************************************)
(* Completions of an asynchronous call: not settled, resolved with a       *)
(* value, or rejected with an error (named by its message).                *)
(***************************************************************************)
NoCompletion == [kind |-> "none", value |-> Null, error |-> ""]
Return(v) == [kind |-> "return", value |-> v, error |-> ""]
Throw(e) == [kind |-> "throw", value |-> Null, error |-> e]

(***************************************************************************)
(* State.                                                                  *)
(*   rq[r]      the state of request r: where its handler is suspended     *)
(*              (pc), its locals, and a record of what it did              *)
(*   puppeteer, chromium   the two module-level handles (index.js 139-140) *)
(*   browsers   every browser instance launched so far, "open" or "closed"; *)
(*              an instance is named <<r, k>>: the k-th one that request r *)
(*              launched                                                   *)
(*   initRuns   how often the body of `if (!puppeteer)` was entered        *)
(*   initDone   how often that body ran to its end                         *)
(***************************************************************************)
VARIABLES rq, puppeteer, chromium, browsers, initRuns, initDone

(***************************************************************************)
(* State of the closer views further below: a function of the program      *)
(* applied to one argument, and the page of one call of                    *)
(* extractViaPuppeteer.  The server leaves them alone.                     *)
(*   arg    the argument a function is applied to                          *)
(*   ret    what the function returned, one entry per application          *)
(*   page   the page of one call: its interception flag, its listeners,    *)
(*          the requests it issued                                         *)
(***************************************************************************)
VARIABLES arg, ret, page

vars == <<rq, puppeteer, chromium, browsers, initRuns, initDone, arg, ret, page>>

\* the variables the server does not touch
aside == <<arg, ret, page>>

NoArg == <<>>
NoPage == <<>>

NewRequest ==
    [ pc |-> "idle",
      url |-> Null,            \* req.query.url
      gets |-> <<>>,           \* the outbound GETs issued (their URLs)
      httpOut |-> NoCompletion,   \* how the call of extractViaHttp settled
      pptrCalls |-> 0,         \* calls of extractViaPuppeteer
      pptrOut |-> NoCompletion,   \* how the call of extractViaPuppeteer settled
      handles |-> Null,        \* const { puppeteer, chromium }
      browser |-> Null,        \* let browser: null or an instance of browsers
      launches |-> 0,          \* browsers launched by this request
      closes |-> 0,            \* calls of browser.close()
      loads |-> 0,             \* calls of loadPuppeteer
      tryOut |-> NoCompletion, \* how the try block of extractViaPuppeteer was left
      navs |-> <<>>,           \* the URLs passed to page.goto
      res |-> <<>>,            \* the responses sent
      ticks |-> 0 ]            \* time since startTime, in resumptions

\* the server once index.js has been loaded and no request has arrived
ServerInit ==
    /\ rq = [r \in Req |-> NewRequest]
    /\ puppeteer = Null
    /\ chromium = Null
    /\ browsers = [b \in {} |-> "open"]
    /\ initRuns = 0
    /\ initDone = 0

Init ==
    /\ ServerInit
    /\ arg = NoArg
    /\ ret = <<>>
    /\ page = NoPage

(***************************************************************************)
(* The pure parts of the route handler (src/index.js 247-314).             *)
(***************************************************************************)
\* validate without the test of the site's domain
validateNoDomain(videoUrl) ==
    IF ~TruthyStr(videoUrl) THEN Some(MSG_MISSING) ELSE Null

\* lines 250-263: Null when the request is valid, else the 400 message
validate(videoUrl) ==
    IF ~TruthyStr(videoUrl) THEN Some(MSG_MISSING)
    ELSE IF ~includes(videoUrl[1], "facebook.com") /\ ~includes(videoUrl[1], "fb.com")
         THEN Some(MSG_INVALID)
    ELSE Null

badRequest(msg) == [status |-> 400, body |-> [success |-> FALSE, error |-> msg]]

\* Found without the test `hdUrl || sdUrl`
FoundAlways(links, method) ==
    Some([success |-> TRUE, hdUrl |-> links.hdUrl, sdUrl |-> links.sdUrl,
          method |-> method])

\* lines 128-132 and 200-204: `if (hdUrl || sdUrl) return {...}; return null;`
Found(links, method) ==
    IF TruthyStr(links.hdUrl) \/ TruthyStr(links.sdUrl)
    THEN Some([success |-> TRUE, hdUrl |-> links.hdUrl, sdUrl |-> links.sdUrl,
               method |-> method])
    ELSE Null

\* lines 126-132: what extractViaHttp returns for a response body
httpResult(html) == Found(extractVideoUrlsFromHtml(html), "http")

\* lines 197-204: what the try block of extractViaPuppeteer returns
puppeteerResult(html) == Found(extractVideoUrlsFromHtml(html), "puppeteer")

\* afterDirect calling extractViaPuppeteer whatever extractViaHttp returned
afterDirectAlwaysFallback(c) ==
    IF c.kind = "throw" THEN "catch" ELSE "fallback"

\* lines 270-279, 304: what the handler does once `await extractViaHttp`
\* settles with completion c: a rejection leaves the try block for the catch
\* clause, a result is answered, no result calls extractViaPuppeteer
afterDirect(c) ==
    IF c.kind = "throw" THEN "catch"
    ELSE IF c.value = Null THEN "fallback"
    ELSE "respond"

\* successBody with the url field preferring the standard-quality link
successBodySdFirst(result, duration) ==
    [ success |-> TRUE,
      hd_url |-> OrElse(result.hdUrl, Null),
      sd_url |-> OrElse(result.sdUrl, Null),
      url |-> OrElse(result.sdUrl, result.hdUrl),
      method |-> result.method,
      duration_ms |-> duration ]

\* lines 286-294
successBody(result, duration) ==
    [ success |-> TRUE,
      hd_url |-> OrElse(result.hdUrl, Null),
      sd_url |-> OrElse(result.sdUrl, Null),
      url |-> OrElse(result.hdUrl, result.sdUrl),
      method |-> result.method,
      duration_ms |-> duration ]

\* respond with an empty catch clause: an error is answered like no result
respondSwallow(c, duration) ==
    IF c.value # Null
    THEN [status |-> 200, body |-> successBody(c.value[1], duration)]
    ELSE [status |-> 404,
          body |-> [success |-> FALSE, error |-> MSG_NOT_FOUND, duration_ms |-> duration]]

\* respond testing `result.hdUrl` instead of `result`
respondHdOnly(c, duration) ==
    IF c.kind = "throw"
    THEN [status |-> 500,
          body |-> [success |-> FALSE, error |-> c.error, duration_ms |-> duration]]
    ELSE IF c.value # Null /\ TruthyStr(c.value[1].hdUrl)
    THEN [status |-> 200, body |-> successBody(c.value[1], duration)]
    ELSE [status |-> 404,
          body |-> [success |-> FALSE, error |-> MSG_NOT_FOUND, duration_ms |-> duration]]

\* lines 281-313: the response for the completion c of the try block
respond(c, duration) ==
    IF c.kind = "throw"
    THEN [status |-> 500,
          body |-> [success |-> FALSE, error |-> c.error, duration_ms |-> duration]]
    ELSE IF c.value # Null
    THEN [status |-> 200, body |-> successBody(c.value[1], duration)]
    ELSE [status |-> 404,
          body |-> [success |-> FALSE, error |-> MSG_NOT_FOUND, duration_ms |-> duration]]

(***************************************************************************)
(* loadPuppeteer (src/index.js 145-155).  The function holds no await, so  *)
(* its body runs in one piece.  p, c are the two handles before the call;  *)
(* ok1, ok2 say whether require('puppeteer-core') and                      *)
(* require('@sparticuz/chromium') load their module or throw.              *)
(***************************************************************************)
CHROMIUM_CONFIGURED == Some([setHeadlessMode |-> TRUE, setGraphicsMode |-> FALSE])

\* loadPuppeteer without the guard `if (!puppeteer)`
loadPuppeteerNoGuard(p, c, ok1, ok2) ==
    IF ~ok1
    THEN [puppeteer |-> p, chromium |-> c, ran |-> TRUE, finished |-> FALSE,
          out |-> Throw(ERR_REQUIRE_PUPPETEER)]
    ELSE IF ~ok2
    THEN [puppeteer |-> Some("puppeteer-core"), chromium |-> c, ran |-> TRUE,
          finished |-> FALSE, out |-> Throw(ERR_REQUIRE_CHROMIUM)]
    ELSE [puppeteer |-> Some("puppeteer-core"), chromium |-> CHROMIUM_CONFIGURED,
          ran |-> TRUE, finished |-> TRUE,
          out |-> Return(Some([puppeteer |-> Some("puppeteer-core"),
                               chromium |-> CHROMIUM_CONFIGURED]))]

loadPuppeteer(p, c, ok1, ok2) ==
    IF p # Null
    THEN [puppeteer |-> p, chromium |-> c, ran |-> FALSE, finished |-> FALSE,
          out |-> Return(Some([puppeteer |-> p, chromium |-> c]))]
    ELSE IF ~ok1
    THEN [puppeteer |-> p, chromium |-> c, ran |-> TRUE, finished |-> FALSE,
          out |-> Throw(ERR_REQUIRE_PUPPETEER)]
    ELSE IF ~ok2
    THEN [puppeteer |-> Some("puppeteer-core"), chromium |-> c, ran |-> TRUE,
          finished |-> FALSE, out |-> Throw(ERR_REQUIRE_CHROMIUM)]
    ELSE [puppeteer |-> Some("puppeteer-core"), chromium |-> CHROMIUM_CONFIGURED,
          ran |-> TRUE, finished |-> TRUE,
          out |-> Return(Some([puppeteer |-> Some("puppeteer-core"),
                               chromium |-> CHROMIUM_CONFIGURED]))]

(***************************************************************************)
(* The steps of a request, as functions of its state q.                    *)
(***************************************************************************)
Resume(q) == [q EXCEPT !.ticks = @ + 1]

\* answer without the `return` before res.json of line 286: after the 200
\* the handler goes on to send the 404
answerNoReturn(q, c) ==
    IF c.kind = "return" /\ c.value # Null
    THEN [q EXCEPT !.pc = "done",
                   !.res = Append(Append(@, respond(c, q.ticks)),
                                  respond(Return(Null), q.ticks))]
    ELSE [q EXCEPT !.pc = "done", !.res = Append(@, respond(c, q.ticks))]

\* lines 281-313: the try block of the handler is left with completion c
\* and the response is sent
answer(q, c) ==
    [q EXCEPT !.pc = "done", !.res = Append(@, respond(c, q.ticks))]

\* settleRendered calling extractViaPuppeteer once more when it found nothing
settleRenderedRetry(q, c) ==
    IF c = Return(Null) /\ q.pptrCalls < 2
    THEN [q EXCEPT !.pc = "executablePath", !.pptrCalls = @ + 1, !.browser = Null]
    ELSE answer([q EXCEPT !.pptrOut = c], c)

\* lines 278-313: the call of extractViaPuppeteer settles with completion c
\* and the handler resumes
settleRendered(q, c) == answer([q EXCEPT !.pptrOut = c], c)

\* finallyBlock as a close at the end of the try block (no finally): the
\* browser is closed only when the block ends normally
finallyBlockCloseOnReturn(q, c) ==
    IF q.browser # Null /\ c.kind = "return"
    THEN [q EXCEPT !.pc = "close", !.tryOut = c, !.closes = @ + 1]
    ELSE settleRendered([q EXCEPT !.tryOut = c], c)

\* The finally block of extractViaPuppeteer (lines 205-209): the try block
\* is left with completion c; a launched browser is closed first, and the
\* call settles once close() has.
finallyBlock(q, c) ==
    IF q.browser # Null
    THEN [q EXCEPT !.pc = "close", !.tryOut = c, !.closes = @ + 1]
    ELSE settleRendered([q EXCEPT !.tryOut = c], c)

\* lines 160-171: extractViaPuppeteer is called; c is the completion of
\* loadPuppeteer().  A rejection rejects the call (the try block is not
\* entered); else the launch options are built, which reads chromium.args
\* and awaits chromium.executablePath().
startRendered(q, c) ==
    IF c.kind = "throw"
    THEN settleRendered([q EXCEPT !.pptrCalls = @ + 1, !.loads = @ + 1], c)
    ELSE IF c.value[1].chromium = Null
    THEN finallyBlock([q EXCEPT !.pptrCalls = @ + 1, !.loads = @ + 1,
                                !.handles = c.value],
                      Throw(ERR_NULL_ARGS))
    ELSE [q EXCEPT !.pptrCalls = @ + 1, !.loads = @ + 1, !.handles = c.value,
                   !.pc = "executablePath"]

\* how got, and with it extractViaHttp (lines 114-133), may settle: got
\* rejects (network error, timeout, non-2xx), or resolves with a body
HttpCompletions ==
    {Throw(e) : e \in HttpErrors} \cup {Return(httpResult(html)) : html \in Pages}

\* how page.content() and the rest of the try block (lines 197-204) may end
ContentCompletions ==
    {Throw(ERR_CONTENT)} \cup {Return(puppeteerResult(html)) : html \in Pages}

(***************************************************************************)
(* Actions.                                                                *)
(***************************************************************************)
Globals == <<puppeteer, chromium, browsers, initRuns, initDone>>

\* lines 247-273 and 111-124: the request arrives; it is answered 400, or
\* extractViaHttp normalizes the link and issues the GET
Handle(r) ==
    /\ rq[r].pc = "idle"
    /\ \E u \in Urls :
          rq' = [rq EXCEPT ![r] =
                 IF validate(u) # Null
                 THEN [@ EXCEPT !.pc = "done", !.url = u,
                                !.res = Append(@, badRequest(validate(u)[1]))]
                 ELSE [@ EXCEPT !.pc = "got", !.url = u,
                                !.gets = Append(@, normalizeUrl(u[1]))]]
    /\ UNCHANGED Globals
    /\ UNCHANGED aside

\* lines 114-133, 273-313, 160-171: got settles and so does extractViaHttp;
\* the handler resumes: it answers, or calls extractViaPuppeteer, which
\* runs loadPuppeteer
HttpSettles(r) ==
    /\ rq[r].pc = "got"
    /\ \E c \in HttpCompletions :
          IF afterDirect(c) # "fallback"
          THEN /\ rq' = [rq EXCEPT ![r] = answer([Resume(@) EXCEPT !.httpOut = c], c)]
               /\ UNCHANGED Globals
          ELSE \E ok1, ok2 \in BOOLEAN :
                  /\ puppeteer' = loadPuppeteer(puppeteer, chromium, ok1, ok2).puppeteer
                  /\ chromium' = loadPuppeteer(puppeteer, chromium, ok1, ok2).chromium
                  /\ initRuns' = initRuns
                        + (IF loadPuppeteer(puppeteer, chromium, ok1, ok2).ran THEN 1 ELSE 0)
                  /\ initDone' = initDone
                        + (IF loadPuppeteer(puppeteer, chromium, ok1, ok2).finished THEN 1 ELSE 0)
                  /\ rq' = [rq EXCEPT ![r] =
                            startRendered([Resume(@) EXCEPT !.httpOut = c],
                                loadPuppeteer(puppeteer, chromium, ok1, ok2).out)]
                  /\ UNCHANGED browsers
    /\ UNCHANGED aside

\* lines 166-171: chromium.executablePath() settles; puppeteer.launch is called
ExecutablePathSettles(r) ==
    /\ rq[r].pc = "executablePath"
    /\ \/ rq' = [rq EXCEPT ![r] = [Resume(@) EXCEPT !.pc = "launch"]]
       \/ rq' = [rq EXCEPT ![r] = finallyBlock(Resume(@), Throw(ERR_EXECUTABLE_PATH))]
    /\ UNCHANGED Globals
    /\ UNCHANGED aside

\* lines 166-173: puppeteer.launch settles; browser.newPage is called
LaunchSettles(r) ==
    /\ rq[r].pc = "launch"
    /\ \/ /\ browsers' = (<<r, rq[r].launches + 1>> :> "open") @@ browsers
          /\ rq' = [rq EXCEPT ![r] = [Resume(@) EXCEPT !.pc = "newPage",
                                        !.browser = Some(<<r, rq[r].launches + 1>>),
                                        !.launches = @ + 1]]
       \/ /\ rq' = [rq EXCEPT ![r] = finallyBlock(Resume(@), Throw(ERR_LAUNCH))]
          /\ UNCHANGED browsers
    /\ UNCHANGED <<puppeteer, chromium, initRuns, initDone>>
    /\ UNCHANGED aside

\* line 173: browser.newPage settles; page.setUserAgent is called
NewPageSettles(r) ==
    /\ rq[r].pc = "newPage"
    /\ \/ rq' = [rq EXCEPT ![r] = [Resume(@) EXCEPT !.pc = "setUserAgent"]]
       \/ rq' = [rq EXCEPT ![r] = finallyBlock(Resume(@), Throw(ERR_NEW_PAGE))]
    /\ UNCHANGED Globals
    /\ UNCHANGED aside

\* lines 175-176: page.setUserAgent settles; page.setRequestInterception is called
SetUserAgentSettles(r) ==
    /\ rq[r].pc = "setUserAgent"
    /\ \/ rq' = [rq EXCEPT ![r] = [Resume(@) EXCEPT !.pc = "setRequestInterception"]]
       \/ rq' = [rq EXCEPT ![r] = finallyBlock(Resume(@), Throw(ERR_SET_USER_AGENT))]
    /\ UNCHANGED Globals
    /\ UNCHANGED aside

\* lines 176-192: page.setRequestInterception settles; the request handler
\* is registered and page.goto is called with the normalized link
SetRequestInterceptionSettles(r) ==
    /\ rq[r].pc = "setRequestInterception"
    /\ \/ rq' = [rq EXCEPT ![r] = [Resume(@) EXCEPT !.pc = "goto",
                                     !.navs = Append(@, normalizeUrl(rq[r].url[1]))]]
       \/ rq' = [rq EXCEPT ![r] = finallyBlock(Resume(@), Throw(ERR_SET_INTERCEPTION))]
    /\ UNCHANGED Globals
    /\ UNCHANGED aside

\* lines 189-195: page.goto settles; the 2 s timer is started
GotoSettles(r) ==
    /\ rq[r].pc = "goto"
    /\ \/ rq' = [rq EXCEPT ![r] = [Resume(@) EXCEPT !.pc = "settle"]]
       \/ rq' = [rq EXCEPT ![r] = finallyBlock(Resume(@), Throw(ERR_GOTO))]
    /\ UNCHANGED Globals
    /\ UNCHANGED aside

\* lines 195-197: the timer fires; page.content is called
SettleTimerFires(r) ==
    /\ rq[r].pc = "settle"
    /\ rq' = [rq EXCEPT ![r] = [Resume(@) EXCEPT !.pc = "content"]]
    /\ UNCHANGED Globals
    /\ UNCHANGED aside

\* lines 197-209: page.content settles; the markup is searched and the try
\* block is left
ContentSettles(r) ==
    /\ rq[r].pc = "content"
    /\ \E c \in ContentCompletions :
          rq' = [rq EXCEPT ![r] = finallyBlock(Resume(@), c)]
    /\ UNCHANGED Globals
    /\ UNCHANGED aside

\* lines 205-209, 278-313: browser.close() settles: the instance is gone.
\* When close resolves the call settles as the try block did; when it
\* rejects, its error is what the call rejects with.  The handler resumes.
CloseSettles(r) ==
    /\ rq[r].pc = "close"
    /\ browsers' = [browsers EXCEPT ![rq[r].browser[1]] = "closed"]
    /\ \/ rq' = [rq EXCEPT ![r] = settleRendered(Resume(@), rq[r].tryOut)]
       \/ rq' = [rq EXCEPT ![r] = settleRendered(Resume(@), Throw(ERR_CLOSE))]
    /\ UNCHANGED <<puppeteer, chromium, initRuns, initDone>>
    /\ UNCHANGED aside

Next ==
    \E r \in Req :
       \/ Handle(r)
       \/ HttpSettles(r)
       \/ ExecutablePathSettles(r)
       \/ LaunchSettles(r)
       \/ NewPageSettles(r)
       \/ SetUserAgentSettles(r)
       \/ SetRequestInterceptionSettles(r)
       \/ GotoSettles(r)
       \/ SettleTimerFires(r)
       \/ ContentSettles(r)
       \/ CloseSettles(r)

Spec == Init /\ [][Next]_vars

(***************************************************************************)
(* Properties.                                                             *)
(***************************************************************************)
Done(r) == rq[r].pc = "done"

\* extractViaHttp returned a result object
DirectFound(r) == rq[r].httpOut.kind = "return" /\ rq[r].httpOut.value # Null

\* extractViaPuppeteer returned a result object
RenderedFound(r) == rq[r].pptrOut.kind = "return" /\ rq[r].pptrOut.value # Null

\* nothing was done for request r beyond answering it
NoExtraction(r) ==
    /\ rq[r].gets = <<>>
    /\ rq[r].pptrCalls = 0
    /\ rq[r].loads = 0
    /\ rq[r].launches = 0
    /\ rq[r].handles = Null
    /\ rq[r].browser = Null

\* C1: whenever extractViaHttp has thrown, extractViaPuppeteer has been
\* called for the request (the handler catches the error and falls back),
\* and no response of the request reports the Direct-Fetch error.
C1_DirectErrorFallsBack ==
    \A r \in Req :
       rq[r].httpOut.kind = "throw" =>
          /\ rq[r].pptrCalls = 1
          /\ \A i \in DOMAIN rq[r].res :
                \/ rq[r].res[i].status = 200
                \/ rq[r].res[i].body.error # rq[r].httpOut.error

\* C2: when extractViaHttp resolved with a result holding at least one of
\* the two links, extractViaPuppeteer is never called for the request (no
\* driver load, no launch) and the one response is 200 with method "http";
\* extractViaPuppeteer is called only after extractViaHttp returned null.
C2_DirectFoundSkipsRendered ==
    \A r \in Req :
       /\ ( /\ DirectFound(r)
            /\ \/ TruthyStr(rq[r].httpOut.value[1].hdUrl)
               \/ TruthyStr(rq[r].httpOut.value[1].sdUrl) )
          => /\ rq[r].pptrCalls = 0
             /\ rq[r].loads = 0
             /\ rq[r].launches = 0
             /\ rq[r].handles = Null
             /\ Done(r)
             /\ Len(rq[r].res) = 1
             /\ rq[r].res[1].status = 200
             /\ rq[r].res[1].body.method = "http"
       /\ rq[r].pptrCalls > 0 => rq[r].httpOut = Return(Null)

C2_Witness ==
    \E r \in Req :
       /\ Done(r)
       /\ DirectFound(r)
       /\ rq[r].httpOut.value[1].hdUrl = Null
       /\ rq[r].httpOut.value[1].sdUrl # Null
       /\ rq[r].res[1].status = 200
       /\ rq[r].pptrCalls = 0

\* C3: a request issues at most one GET, calls extractViaPuppeteer at most
\* once and launches at most one browser; once extractViaHttp has returned
\* null, extractViaPuppeteer has been called exactly once.
C3_NoRetry ==
    \A r \in Req :
       /\ Len(rq[r].gets) <= 1
       /\ rq[r].pptrCalls <= 1
       /\ rq[r].launches <= 1
       /\ rq[r].httpOut = Return(Null) => rq[r].pptrCalls = 1

C3_Witness ==
    \E r \in Req :
       /\ Done(r)
       /\ rq[r].httpOut = Return(Null)
       /\ rq[r].pptrOut = Return(Null)
       /\ Len(rq[r].gets) = 1
       /\ rq[r].pptrCalls = 1
       /\ rq[r].launches = 1

\* C4: when extractViaPuppeteer rejects, the request is answered once, with
\* status 500 and a body of success false, the message of the error the
\* call rejected with, and duration_ms; and whenever a step of the try block
\* threw, the answer is a 500, never a 200 or a 404.
C4_RenderedErrorIs500 ==
    \A r \in Req :
       /\ rq[r].pptrOut.kind = "throw"
          => /\ Done(r)
             /\ rq[r].res = << [status |-> 500,
                                body |-> [success |-> FALSE,
                                          error |-> rq[r].pptrOut.error,
                                          duration_ms |-> rq[r].ticks]] >>
       /\ (Done(r) /\ rq[r].tryOut.kind = "throw")
          => /\ Len(rq[r].res) = 1
             /\ rq[r].res[1].status = 500

C4_Witness ==
    \E r \in Req :
       /\ Done(r)
       /\ rq[r].launches = 1
       /\ rq[r].pptrOut = Throw(ERR_GOTO)
       /\ rq[r].res[1].status = 500
       /\ rq[r].res[1].body.error = ERR_GOTO

\* C5: a request has a 404 response exactly when extractViaHttp and
\* extractViaPuppeteer both returned null (neither threw, neither found a
\* link); the 404 body has success false, the "may be private or deleted"
\* message and duration_ms.
C5_NotFoundIffBothEmpty ==
    \A r \in Req :
       /\ (\E i \in DOMAIN rq[r].res : rq[r].res[i].status = 404)
          <=> (rq[r].httpOut = Return(Null) /\ rq[r].pptrOut = Return(Null))
       /\ \A i \in DOMAIN rq[r].res :
             rq[r].res[i].status = 404
             => /\ rq[r].res[i].body.success = FALSE
                /\ includes(rq[r].res[i].body.error, "may be private or deleted")
                /\ rq[r].res[i].body.duration_ms = rq[r].ticks

C5_Witness ==
    \E r \in Req :
       /\ Done(r)
       /\ rq[r].httpOut = Return(Null)
       /\ rq[r].pptrOut = Return(Null)
       /\ rq[r].closes = 1
       /\ rq[r].res[1].status = 404

\* C6: a request without a url (absent or empty) is answered 400 "Missing
\* required parameter: url", one whose url holds neither facebook.com nor
\* fb.com is answered 400 "Invalid URL: Must be a Facebook video URL"; for
\* both no GET is issued, the driver is not loaded, no browser is launched.
C6_ValidationFirst ==
    \A r \in Req :
       rq[r].pc # "idle" =>
          /\ ~TruthyStr(rq[r].url)
             => /\ Done(r)
                /\ rq[r].res = << [status |-> 400,
                                   body |-> [success |-> FALSE,
                                             error |-> "Missing required parameter: url"]] >>
                /\ NoExtraction(r)
          /\ ( /\ TruthyStr(rq[r].url)
               /\ ~includes(rq[r].url[1], "facebook.com")
               /\ ~includes(rq[r].url[1], "fb.com") )
             => /\ Done(r)
                /\ rq[r].res = << [status |-> 400,
                                   body |-> [success |-> FALSE,
                                             error |-> "Invalid URL: Must be a Facebook video URL"]] >>
                /\ NoExtraction(r)

C6_Witness ==
    \E r, s \in Req :
       /\ rq[r].url = Some("")
       /\ rq[r].res[1].body.error = MSG_MISSING
       /\ rq[s].url = Some("https://example.com/video")
       /\ rq[s].res[1].body.error = MSG_INVALID
       /\ NoExtraction(r)
       /\ NoExtraction(s)

\* C7: once the call of extractViaPuppeteer has settled, the browser it
\* launched is closed, however the try block was left; a browser that is
\* open belongs to a call that has not settled yet.
C7_BrowserClosed ==
    /\ \A r \in Req :
          (rq[r].pptrOut.kind # "none" /\ rq[r].browser # Null)
          => /\ browsers[rq[r].browser[1]] = "closed"
             /\ rq[r].closes = 1
    /\ \A b \in DOMAIN browsers :
          browsers[b] = "open"
          => \E r \in Req : /\ rq[r].browser = Some(b)
                            /\ rq[r].pptrOut.kind = "none"
                            /\ ~Done(r)

C7_Witness ==
    \E r \in Req :
       /\ Done(r)
       /\ rq[r].browser # Null
       /\ rq[r].tryOut = Throw(ERR_SET_INTERCEPTION)
       /\ rq[r].pptrOut = Throw(ERR_SET_INTERCEPTION)
       /\ browsers[rq[r].browser[1]] = "closed"

\* C8: a result object returned by extractViaHttp or extractViaPuppeteer
\* holds at least one of hdUrl, sdUrl, and every 200 response has at least
\* one of hd_url, sd_url non-null.
C8_FoundHasALink ==
    \A r \in Req :
       /\ DirectFound(r)
          => \/ TruthyStr(rq[r].httpOut.value[1].hdUrl)
             \/ TruthyStr(rq[r].httpOut.value[1].sdUrl)
       /\ RenderedFound(r)
          => \/ TruthyStr(rq[r].pptrOut.value[1].hdUrl)
             \/ TruthyStr(rq[r].pptrOut.value[1].sdUrl)
       /\ \A i \in DOMAIN rq[r].res :
             rq[r].res[i].status = 200
             => \/ rq[r].res[i].body.hd_url # Null
                \/ rq[r].res[i].body.sd_url # Null

C8_Witness ==
    \E r \in Req :
       /\ Done(r)
       /\ rq[r].httpOut = Return(Null)
       /\ RenderedFound(r)
       /\ rq[r].res[1].status = 200
       /\ rq[r].res[1].body.hd_url = Null
       /\ rq[r].res[1].body.sd_url # Null

\* C9: in a 200 response url is hd_url when hd_url is present and sd_url
\* otherwise; method is "http" exactly when the links are those
\* extractViaHttp returned and "puppeteer" exactly when they are those
\* extractViaPuppeteer returned.
LinksOf(body, c) ==
    /\ c.kind = "return"
    /\ c.value # Null
    /\ body.hd_url = c.value[1].hdUrl
    /\ body.sd_url = c.value[1].sdUrl

C9_UrlAndMethod ==
    \A r \in Req :
       \A i \in DOMAIN rq[r].res :
          rq[r].res[i].status = 200
          => /\ rq[r].res[i].body.url =
                   IF rq[r].res[i].body.hd_url # Null
                   THEN rq[r].res[i].body.hd_url
                   ELSE rq[r].res[i].body.sd_url
             /\ rq[r].res[i].body.method = "http"
                <=> LinksOf(rq[r].res[i].body, rq[r].httpOut)
             /\ rq[r].res[i].body.method = "puppeteer"
                <=> LinksOf(rq[r].res[i].body, rq[r].pptrOut)

C9_Witness ==
    \E r, s \in Req :
       /\ rq[r].res # <<>>
       /\ rq[r].res[1].status = 200
       /\ rq[r].res[1].body.method = "http"
       /\ rq[r].res[1].body.hd_url # Null
       /\ rq[r].res[1].body.sd_url # Null
       /\ rq[r].res[1].body.url = rq[r].res[1].body.hd_url
       /\ rq[s].res # <<>>
       /\ rq[s].res[1].status = 200
       /\ rq[s].res[1].body.method = "puppeteer"
       /\ rq[s].res[1].body.hd_url = Null
       /\ rq[s].res[1].body.url = rq[s].res[1].body.sd_url

\* C10 as claimed: the body of `if (!puppeteer)` in loadPuppeteer is
\* entered at most once in the life of the process.
C10_BodyEnteredAtMostOnce == initRuns <= 1

\* C10 as amended: the body of `if (!puppeteer)` runs to its end at most
\* once; once the driver handle is set no call enters the body or changes a
\* handle again; and the handles a call returned are the module's handles.
C10_InitialisedOnce ==
    [][ /\ initDone' <= 1
        /\ puppeteer # Null
           => /\ puppeteer' = puppeteer
              /\ chromium' = chromium
              /\ initRuns' = initRuns
              /\ initDone' = initDone
        /\ \A r \in Req :
              rq'[r].handles # Null
              => rq'[r].handles = Some([puppeteer |-> puppeteer', chromium |-> chromium'])
      ]_vars

C10_Witness ==
    \E r, s \in Req :
       /\ r # s
       /\ rq[r].handles # Null
       /\ rq[s].handles # Null
       /\ rq[r].handles = rq[s].handles
       /\ initRuns = 1
       /\ initDone = 1

\* the messages of the errors that a call made by a request itself (the GET,
\* a require, a call on chromium, the browser or the page) may fail with
OwnCallErrors ==
    HttpErrors \cup
    { ERR_REQUIRE_PUPPETEER, ERR_REQUIRE_CHROMIUM, ERR_EXECUTABLE_PATH,
      ERR_LAUNCH, ERR_NEW_PAGE, ERR_SET_USER_AGENT, ERR_SET_INTERCEPTION,
      ERR_GOTO, ERR_CONTENT, ERR_CLOSE }

\* every browser instance belongs to the one request that launched it, a
\* request launches at most one and closes it once, and there are as many
\* instances as launches and as many closed ones as close() calls that settled
OwnBrowser ==
    /\ \A b \in DOMAIN browsers :
          /\ b[1] \in Req
          /\ rq[b[1]].browser = Some(b)
          /\ \A s \in Req : rq[s].browser = Some(b) => s = b[1]
          /\ browsers[b] = "closed" => (rq[b[1]].closes = 1 /\ Done(b[1]))
    /\ \A r \in Req :
          /\ rq[r].launches = Cardinality({b \in DOMAIN browsers : b[1] = r})
          /\ rq[r].launches <= 1
          /\ rq[r].closes <= rq[r].launches
          /\ Done(r) => rq[r].closes = rq[r].launches

\* C11: every browser is launched, used and closed by one request only, N
\* requests that launch perform N launches and N closes, and what a request
\* is answered depends on its own calls alone: a request is answered 500
\* only with the error of a call that it made itself.
C11_RequestsIsolated ==
    /\ OwnBrowser
    /\ \A r \in Req :
          \A i \in DOMAIN rq[r].res :
             rq[r].res[i].status = 500 => rq[r].res[i].body.error \in OwnCallErrors

\* C18: a request has at most one response, and exactly one once its
\* handler has finished, which it has as soon as validation failed or the
\* last strategy call settled; the status is the one of the path taken: 400
\* for a missing or invalid url, 200 when Direct-Fetch or Rendered-Fetch
\* found a link, 404 when both returned null, 500 when one of them threw.
C18_AnsweredOnce ==
    \A r \in Req :
       /\ Len(rq[r].res) <= 1
       /\ Done(r) <=> Len(rq[r].res) = 1
       /\ Done(r) => rq[r].res[1].status \in {400, 200, 404, 500}
       /\ (rq[r].pc # "idle" /\ validate(rq[r].url) # Null)
          => (Done(r) /\ rq[r].res[1].status = 400)
       /\ (DirectFound(r) \/ RenderedFound(r))
          => (Done(r) /\ rq[r].res[1].status = 200)
       /\ (rq[r].httpOut = Return(Null) /\ rq[r].pptrOut = Return(Null))
          => (Done(r) /\ rq[r].res[1].status = 404)
       /\ (rq[r].httpOut.kind = "throw" \/ rq[r].pptrOut.kind = "throw")
          => (Done(r) /\ rq[r].res[1].status = 500)

C18_Witness ==
    \E r, s \in Req :
       /\ Done(r)
       /\ rq[r].httpOut = Return(Null)
       /\ rq[r].pptrOut = Throw(ERR_LAUNCH)
       /\ Len(rq[r].res) = 1
       /\ rq[r].res[1].status = 500
       /\ Done(s)
       /\ RenderedFound(s)
       /\ Len(rq[s].res) = 1
       /\ rq[s].res[1].status = 200

\* C19: the two module-level handles are both unset, or both set with
\* chromium configured, and what a call of loadPuppeteer returned holds
\* both handles non-null.
C19_HandlesTogether ==
    /\ puppeteer = Null <=> chromium = Null
    /\ chromium # Null => chromium = CHROMIUM_CONFIGURED
    /\ \A r \in Req :
          rq[r].handles # Null
          => /\ rq[r].handles[1].puppeteer # Null
             /\ rq[r].handles[1].chromium # Null

\* C20: the call of extractViaPuppeteer settles the way its try block was
\* left, whatever browser.close() does: a result found is returned and
\* answered 200, and an error of an earlier step is the error the call
\* rejects with and the 500 reports.
C20_CloseKeepsOutcome ==
    \A r \in Req :
       (rq[r].pptrOut.kind # "none" /\ rq[r].tryOut.kind # "none")
       => /\ rq[r].pptrOut = rq[r].tryOut
          /\ (rq[r].tryOut.kind = "return" /\ rq[r].tryOut.value # Null)
             => rq[r].res[1].status = 200
          /\ rq[r].tryOut.kind = "throw"
             => rq[r].res[1].body.error = rq[r].tryOut.error

(***************************************************************************)
(* The pattern extractor applied to markup (src/index.js 71-106, called at *)
(* lines 126 and 198).  The markup is a document of up to MaxFrags         *)
(* fragments.  A fragment is a key of one of the six patterns followed by  *)
(* a quoted value, or text that no pattern matches.  The value of the      *)
(* fragment at position i names i, so that two occurrences never hold the  *)
(* same link, and the white space around the colon changes with i.         *)
(***************************************************************************)
\* the longest document, in fragments
MaxFrags == 3

Keys == {PAT_HD1, PAT_HD2, PAT_HD3, PAT_SD1, PAT_SD2, PAT_SD3}
HdKeys == <<PAT_HD1, PAT_HD2, PAT_HD3>>
SdKeys == <<PAT_SD1, PAT_SD2, PAT_SD3>>

\* "plain": a link as Facebook writes it, with \/ and &;
\* "quote": a link that also holds \" ;  "empty": the value "" ;
\* "noise": markup without any key
Frags ==
    {[key |-> k, form |-> "plain"] : k \in Keys}
    \cup { [key |-> PAT_HD1, form |-> "quote"],
           [key |-> PAT_HD1, form |-> "empty"],
           [key |-> "", form |-> "noise"] }

Docs == UNION {[1..n -> Frags] : n \in 0..MaxFrags}

Digit(i) == SubSeq("123456789", i, i)

\* the value of the fragment at position i as the markup holds it
Escaped(form, i) ==
    IF form = "plain" THEN "https:\\/\\/c.x\\/" \o Digit(i) \o "?a=1\\u0026b=2"
    ELSE IF form = "quote"
    THEN "https:\\/\\/c.x\\/" \o Digit(i) \o "?t=\\\"q\\\"\\u0026b=2"
    ELSE ""

\* the link that value stands for
Decoded(form, i) ==
    IF form = "plain" THEN "https://c.x/" \o Digit(i) \o "?a=1&b=2"
    ELSE IF form = "quote" THEN "https://c.x/" \o Digit(i) \o "?t=\"q\"&b=2"
    ELSE ""

Colon(i) == IF i % 2 = 1 THEN ":" ELSE " :\n  "

RenderFrag(f, i) ==
    IF f.form = "noise" THEN "<div>related</div>"
    ELSE f.key \o Colon(i) \o "\"" \o Escaped(f.form, i) \o "\","

RECURSIVE RenderFrom(_, _)
RenderFrom(doc, i) ==
    IF i > Len(doc) THEN "" ELSE RenderFrag(doc[i], i) \o RenderFrom(doc, i + 1)

Render(doc) == "<script>{" \o RenderFrom(doc, 1) \o "}</script>"

ExtractorInit ==
    /\ ServerInit
    /\ arg \in Docs
    /\ ret = <<>>
    /\ page = NoPage

\* extractVideoUrlsFromHtml(html) is called and returns
ExtractLinks ==
    /\ ret = <<>>
    /\ ret' = <<extractVideoUrlsFromHtml(Render(arg))>>
    /\ UNCHANGED <<rq, Globals, arg, page>>

\* extractVideoUrlsFromHtml of part_000 is called with the same markup
ExtractLinksAll ==
    /\ Len(ret) = 1
    /\ ret' = Append(ret, extractVideoUrlsFromHtml_part_000(Render(arg)))
    /\ UNCHANGED <<rq, Globals, arg, page>>

ExtractorNext == ExtractLinks \/ ExtractLinksAll

ExtractorSpec == ExtractorInit /\ [][ExtractorNext]_vars

\* the positions of the fragments of doc that the pattern of key matches:
\* the key is followed by a value that is not empty
Occurrences(doc, key) ==
    {i \in DOMAIN doc : doc[i].key = key /\ doc[i].form \in {"plain", "quote"}}

Greatest(S) == CHOOSE i \in S : \A j \in S : j <= i

\* the first key of keys with an occurrence in doc; "" when there is none
Winner(doc, keys) ==
    IF Occurrences(doc, keys[1]) # {} THEN keys[1]
    ELSE IF Occurrences(doc, keys[2]) # {} THEN keys[2]
    ELSE IF Occurrences(doc, keys[3]) # {} THEN keys[3]
    ELSE ""

\* the position that a returned link names
PositionOf(link) == CHOOSE i \in 1..9 : Digit(i) = CharAt(link, 13)

\* link is the link of the fragment at position i: the link of a "plain"
\* value as a whole, and at least what names the position otherwise
LinkOfFragment(link, doc, i) ==
    /\ link # Null
    /\ StartsWithAt(link[1], 1, "https://c.x/" \o Digit(i))
    /\ doc[i].form = "plain" => link[1] = Decoded("plain", i)

\* the tier of keys returns the last occurrence of the winning pattern
LastOfWinner(link, doc, keys) ==
    Winner(doc, keys) # ""
    => LinkOfFragment(link, doc, Greatest(Occurrences(doc, Winner(doc, keys))))

\* C12: for each tier, when the winning pattern has k >= 1 occurrences in
\* the markup, the link returned is the one of the k-th occurrence, the
\* last in document order, unescaped.
C12_LastOccurrence ==
    ret # <<>> =>
       /\ LastOfWinner(ret[1].hdUrl, arg, HdKeys)
       /\ LastOfWinner(ret[1].sdUrl, arg, SdKeys)

C12_Witness ==
    /\ ret # <<>>
    /\ Len(arg) = 3
    /\ Occurrences(arg, PAT_HD2) = {1, 2, 3}
    /\ \A i \in 1..3 : arg[i].form = "plain"
    /\ ret[1].hdUrl = Some(Decoded("plain", 3))
    /\ ret[1].sdUrl = Null

\* the link of a tier comes from the first pattern of keys that has an
\* occurrence, and there is no link when none has
FromWinner(link, doc, keys) ==
    IF Winner(doc, keys) = "" THEN link = Null
    ELSE /\ link # Null
         /\ PositionOf(link[1]) \in DOMAIN doc
         /\ doc[PositionOf(link[1])].key = Winner(doc, keys)

\* doc with every fragment of the tier of keys replaced by other text
WithoutTier(doc, keys) ==
    [i \in DOMAIN doc |->
        IF doc[i].key \in {keys[1], keys[2], keys[3]}
        THEN [key |-> "", form |-> "noise"] ELSE doc[i]]

\* C13: the link of a tier comes from the highest-priority pattern of the
\* tier that matches, wherever the lower-priority ones match; the HD link is
\* the same without the SD fragments and the SD link the same without the
\* HD fragments; without any match both links are absent.
C13_PriorityPerTier ==
    ret # <<>> =>
       /\ FromWinner(ret[1].hdUrl, arg, HdKeys)
       /\ FromWinner(ret[1].sdUrl, arg, SdKeys)
       /\ ret[1].hdUrl = extractVideoUrlsFromHtml(Render(WithoutTier(arg, SdKeys))).hdUrl
       /\ ret[1].sdUrl = extractVideoUrlsFromHtml(Render(WithoutTier(arg, HdKeys))).sdUrl
       /\ (\A i \in DOMAIN arg : arg[i].form \in {"noise", "empty"})
          => ret[1] = [hdUrl |-> Null, sdUrl |-> Null]

C13_Witness ==
    /\ ret # <<>>
    /\ Len(arg) = 3
    /\ arg[1] = [key |-> PAT_HD2, form |-> "plain"]
    /\ arg[2] = [key |-> PAT_SD3, form |-> "plain"]
    /\ arg[3] = [key |-> PAT_HD3, form |-> "plain"]
    /\ ret[1].hdUrl = Some(Decoded("plain", 1))
    /\ ret[1].sdUrl = Some(Decoded("plain", 2))

\* C16: when the value of the occurrence a tier returns holds &, \/
\* and \", the link returned is the whole value with the three decoded to
\* &, / and ".
WholeValue(link, doc, keys) ==
    Winner(doc, keys) # ""
    => link = Some(Decoded(doc[Greatest(Occurrences(doc, Winner(doc, keys)))].form,
                           Greatest(Occurrences(doc, Winner(doc, keys)))))

C16_WholeValueDecoded ==
    ret # <<>> =>
       /\ WholeValue(ret[1].hdUrl, arg, HdKeys)
       /\ WholeValue(ret[1].sdUrl, arg, SdKeys)

(***************************************************************************)
(* normalizeUrl applied to a link, and to its own result                   *)
(* (src/index.js 45-51, called at lines 112 and 188).  The link is https,  *)
(* one of the four facebook.com hosts and a tail of up to MaxParts parts:  *)
(* path segments, a query, and the text of a link inside the query.        *)
(***************************************************************************)
\* the longest tail, in parts
MaxParts == 3

\* how often normalizeUrl is applied to a link
MaxApply == 2

AltHosts == {"://m.facebook.com/", "://web.facebook.com/", "://touch.facebook.com/"}
WwwHost == "://www.facebook.com/"
Hosts == AltHosts \cup {WwwHost}

TailParts == {"share/v/", "1AKq/", "?u=https"} \cup AltHosts

Links == {[host |-> h, tail |-> t] :
             h \in Hosts, t \in UNION {[1..n -> TailParts] : n \in 0..MaxParts}}

RECURSIVE Concat(_, _)
Concat(parts, i) ==
    IF i > Len(parts) THEN "" ELSE parts[i] \o Concat(parts, i + 1)

RenderLink(link) == "https" \o link.host \o Concat(link.tail, 1)

NormalizerInit ==
    /\ ServerInit
    /\ arg \in Links
    /\ ret = <<>>
    /\ page = NoPage

\* normalizeUrl is called with the link and returns
NormalizeLink ==
    /\ ret = <<>>
    /\ ret' = <<normalizeUrl(RenderLink(arg))>>
    /\ UNCHANGED <<rq, Globals, arg, page>>

\* normalizeUrl is called with what it returned last
NormalizeAgain ==
    /\ ret # <<>>
    /\ Len(ret) < MaxApply
    /\ ret' = Append(ret, normalizeUrl(ret[Len(ret)]))
    /\ UNCHANGED <<rq, Globals, arg, page>>

NormalizerNext == NormalizeLink \/ NormalizeAgain

NormalizerSpec == NormalizerInit /\ [][NormalizerNext]_vars

\* C14: normalizing what normalizeUrl returned returns it unchanged, also
\* for a link with several alternate-host forms or several /share/v/.
C14_Idempotent ==
    \A i \in DOMAIN ret : i > 1 => ret[i] = ret[i - 1]

\* where p occurs in s beyond the host of the link
OtherOccurrences(s, p) == {j \in 7..Len(s) : StartsWithAt(s, j, p)}

\* C15: the link returned for a link on m., web. or touch.facebook.com is
\* on www.facebook.com, and beyond the host it holds every alternate-host
\* form as often as the link given did.
C15_HostOnly ==
    ret # <<>> =>
       /\ StartsWithAt(ret[1], 1, "https" \o WwwHost)
       /\ \A p \in AltHosts :
             Cardinality(OtherOccurrences(ret[1], p))
                = Cardinality(OtherOccurrences(RenderLink(arg), p))

(***************************************************************************)
(* The page of one call of extractViaPuppeteer (src/index.js 173-209) and  *)
(* the requests it issues.  A new page shows about:blank and issues no     *)
(* request before page.goto is called.  With interception on, the page     *)
(* pauses every request it issues and emits 'request' for it once; the     *)
(* listeners registered then run, and what they call on the request is     *)
(* recorded with it.                                                       *)
(***************************************************************************)
\* the most requests a page issues
MaxRequests == 2

ResourceTypes ==
    {"document", "script", "xhr", "fetch", "image", "stylesheet", "font", "media"}

\* requestHandler calling continue() also after abort() (no else)
requestHandlerNoElse(resourceType) ==
    IF resourceType \in {"image", "stylesheet", "font", "media"}
    THEN <<"abort", "continue">>
    ELSE <<"continue">>

\* lines 179-186: the calls the listener makes on a request
requestHandler(resourceType) ==
    IF resourceType \in {"image", "stylesheet", "font", "media"}
    THEN <<"abort">>
    ELSE <<"continue">>

\* the page emits 'request': every registered listener runs
emitRequest(listeners, resourceType) ==
    IF listeners = 0 THEN <<>> ELSE requestHandler(resourceType)

PageInit ==
    /\ ServerInit
    /\ arg = NoArg
    /\ ret = <<>>
    /\ page = [ pc |-> "newPage",          \* the call the try block waits for
                intercepting |-> FALSE,    \* setRequestInterception(true) took effect
                listeners |-> 0,           \* listeners of 'request'
                navigating |-> FALSE,      \* page.goto was called
                requests |-> <<>> ]        \* the requests issued so far

PageUnchanged == UNCHANGED <<rq, Globals, arg, ret>>

\* the try block is left by an error: the finally block closes the browser
PageFails ==
    /\ page.pc \in {"newPage", "setUserAgent", "setRequestInterception", "goto", "content"}
    /\ page' = [page EXCEPT !.pc = "closed"]
    /\ PageUnchanged

\* line 173-175: browser.newPage() settles; page.setUserAgent is called
PageOpens ==
    /\ page.pc = "newPage"
    /\ page' = [page EXCEPT !.pc = "setUserAgent"]
    /\ PageUnchanged

\* lines 175-176: setUserAgent settles; setRequestInterception(true) is called
UserAgentSet ==
    /\ page.pc = "setUserAgent"
    /\ page' = [page EXCEPT !.pc = "setRequestInterception"]
    /\ PageUnchanged

\* lines 176-192: setRequestInterception settles; the listener is
\* registered and page.goto is called
InterceptionSet ==
    /\ page.pc = "setRequestInterception"
    /\ page' = [page EXCEPT !.pc = "goto", !.intercepting = TRUE,
                            !.listeners = @ + 1, !.navigating = TRUE]
    /\ PageUnchanged

\* the page issues a request while it loads or runs the document
RequestIssued ==
    /\ page.pc \in {"goto", "settle", "content"}
    /\ page.navigating
    /\ Len(page.requests) < MaxRequests
    /\ \E t \in ResourceTypes :
          page' = [page EXCEPT !.requests =
                      Append(@, [ type |-> t,
                                  intercepted |-> page.intercepting,
                                  listeners |-> page.listeners,
                                  calls |-> IF page.intercepting
                                            THEN emitRequest(page.listeners, t)
                                            ELSE <<>> ])]
    /\ PageUnchanged

\* lines 189-195: page.goto settles; the timer is started
Navigated ==
    /\ page.pc = "goto"
    /\ page' = [page EXCEPT !.pc = "settle"]
    /\ PageUnchanged

\* lines 195-197: the timer fires; page.content is called
Settled ==
    /\ page.pc = "settle"
    /\ page' = [page EXCEPT !.pc = "content"]
    /\ PageUnchanged

\* lines 197-209: page.content settles; the try block ends and the finally
\* block closes the browser
ContentRead ==
    /\ page.pc = "content"
    /\ page' = [page EXCEPT !.pc = "closed"]
    /\ PageUnchanged

PageNext ==
    \/ PageOpens
    \/ UserAgentSet
    \/ InterceptionSet
    \/ RequestIssued
    \/ Navigated
    \/ Settled
    \/ ContentRead
    \/ PageFails

PageSpec == PageInit /\ [][PageNext]_vars

\* C17: every request the page issues is intercepted while one listener is
\* registered and is resolved by exactly one call: abort() exactly when its
\* resource type is image, stylesheet, font or media, continue() otherwise;
\* and page.goto is called only with interception on and the listener
\* registered.
C17_ResolvedOnce ==
    /\ page.navigating => (page.intercepting /\ page.listeners = 1)
    /\ \A i \in DOMAIN page.requests :
          /\ page.requests[i].intercepted
          /\ page.requests[i].listeners = 1
          /\ Len(page.requests[i].calls) = 1
          /\ page.requests[i].calls[1] = "abort"
             <=> page.requests[i].type \in {"image", "stylesheet", "font", "media"}
          /\ page.requests[i].calls[1] = "continue"
             <=> page.requests[i].type \notin {"image", "stylesheet", "font", "media"}

C17_Witness ==
    /\ page.pc = "closed"
    /\ Len(page.requests) = 2
    /\ page.requests[1].type = "document"
    /\ page.requests[1].calls = <<"continue">>
    /\ page.requests[2].type = "font"
    /\ page.requests[2].calls = <<"abort">>

\* C21: for every markup, extractVideoUrlsFromHtml of src/index.js and
\* extractVideoUrlsFromHtml of src/unnamed/part_000 return the same hdUrl
\* and the same sdUrl.
C21_VariantsAgree ==
    Len(ret) = 2 =>
       /\ ret[2].hdUrl = ret[1].hdUrl
       /\ ret[2].sdUrl = ret[1].sdUrl

C21_Witness ==
    /\ Len(ret) = 2
    /\ Len(arg) = 3
    /\ arg[1] = [key |-> PAT_HD1, form |-> "plain"]
    /\ arg[2] = [key |-> PAT_HD1, form |-> "quote"]
    /\ arg[3] = [key |-> PAT_SD2, form |-> "plain"]
    /\ ret[1].hdUrl # Null
    /\ ret[2].hdUrl = ret[1].hdUrl
    /\ ret[2].sdUrl = Some(Decoded("plain", 3))

====
